---- MODULE Spec2Model ----
(***************************************************************************)
(* Model of the forwarder's WebSocket transport                            *)
(* (edgehog-device-runtime-forwarder, src/connection/websocket.rs):        *)
(* WebSocketBuilder::with_handle, WebSocketBuilder::build and              *)
(* WebSocket::next with its select / handle_ws_read / handle_ws_write,     *)
(* driven by a connection task and a connections manager.                  *)
(***************************************************************************)
EXTENDS Integers, Sequences, FiniteSets, TLC

\* ------------------------------------------------------------------ bounds
\* total number of WebSocket frames the manager puts into write channels
MaxIn == 2
\* total number of stream events the local services produce
MaxOut == 2
\* capacity of the write channel in the model (connection::WS_CHANNEL_SIZE)
WS_CHANNEL_SIZE == 2
\* inbound frames a run with an endless inbound stream records (SpecStream)
MaxKept == 1
\* the same two budgets for the runs with every id (SpecAll)
MaxInAll == 3
MaxOutAll == 1

\* ------------------------------------------------------------- data types
\* the logical connection identifiers (messages::Id)
Ids == {"A", "B"}

\* variants of ProtoWebSocketMessage
ProtoKinds == {"Text", "Binary", "Ping", "Pong", "Close"}
\* variants of tungstenite::Message; a read never yields the raw "Frame"
TungKinds == ProtoKinds \cup {"Frame"}
TungReadKinds == TungKinds \ {"Frame"}

\* the frames the model feeds in (a subset keeps the state space small)
InKinds == {"Text", "Close"}
OutKinds == {"Binary", "Ping"}

ProtoWs(k) == [ws |-> k]
Tung(k) == [tung |-> k]
\* an error item of the local stream: Some(Err(TungError))
TungErr == [tung |-> "Error"]

\* ProtoMessage::Http(ProtoHttp::new(id, Response(..)))
HttpResponse(id) == [proto |-> "Http", id |-> id, message |-> "Response"]
\* ProtoMessage::WebSocket { socket_id, message }
WsMessage(id, k) == [proto |-> "WebSocket", id |-> id, message |-> k]
NoMsg == [proto |-> "-", id |-> "-", message |-> "-"]

\* Result<Option<ProtoMessage>, ConnectionError> (Pending: next has not returned)
Pending == [tag |-> "Pending", msg |-> NoMsg]
OkSome(m) == [tag |-> "Some", msg |-> m]
OkNone == [tag |-> "None", msg |-> NoMsg]
Err == [tag |-> "Err", msg |-> NoMsg]

\* WsEither: Read(Option<Result<TungMessage, TungError>>) | Write(Option<ProtoWebSocketMessage>)
NoEither == [e |-> "-", opt |-> "-", kind |-> "-"]
Read(opt, kind) == [e |-> "Read", opt |-> opt, kind |-> kind]
Write(opt, kind) == [e |-> "Write", opt |-> opt, kind |-> kind]

VARIABLES
    mgr,       \* the connections manager: "running" | "stopped"
    registry,  \* the ids that have a registered WriteHandle
    phase,     \* id -> "Absent" | "Building" | "Active" | "Closed"
    pc,        \* id -> position of the id's builder / connection task
    tx_alive,  \* id -> a sender of the write channel (WriteHandle) exists
    rx_con,    \* id -> content of the write channel (ProtoWebSocketMessage)
    put,       \* id -> every frame put into the write channel, in order
    ws_stream, \* id -> local socket: "none" | "open" | "closed"
    ws_in,     \* id -> items the local stream will yield, in order
    ws_end,    \* id -> "open" | "eof" | "err": how the local stream ended
    yielded,   \* id -> every frame the local service produced, in order
    ws_out,    \* id -> frames written to the local socket, in order
    either,    \* id -> the WsEither the last select produced
    ret,       \* id -> what the last call of next returned
    returned,  \* id -> every message next returned as Some, in order
    depth,     \* id -> nested, not yet returned invocations of next
    tx_ws,     \* the outbound sink: every ProtoMessage sent to the manager
    outer,     \* what the manager did with the last inbound outer frame
    lim,       \* the budgets of the run: [in, out, kept, inKinds, outKinds]
    hm,        \* astarte: the aggregate (HashMap<String, AstarteType>) received
    info,      \* astarte: Result<ConnectionInfo, AstarteError>
    url,       \* astarte: Result<Url, AstarteError> derived from info
    agg,       \* astarte: the aggregate astarte_aggregate makes of info
    back       \* astarte: Result<ConnectionInfo, AstarteError> retrieved from agg

vars == <<mgr, registry, phase, pc, tx_alive, rx_con, put, ws_stream, ws_in,
          ws_end, yielded, ws_out, either, ret, returned, depth, tx_ws,
          outer, lim, hm, info, url, agg, back>>

\* the variables of the session bootstrap (astarte.rs)
avars == <<hm, info, url, agg, back>>

RECURSIVE SumLen(_, _)
SumLen(f, S) ==
    IF S = {} THEN 0
    ELSE LET x == CHOOSE y \in S : TRUE IN Len(f[x]) + SumLen(f, S \ {x})

\* what the manager did with an inbound outer frame of id; none so far
Handled(id, act) == [id |-> id, act |-> act]
NoFrame == Handled("-", "-")

\* no value yet (astarte variables outside their specification)
Nothing == [ok |-> FALSE, err |-> "-"]

\* the state of the forwarder before the first outer frame, budgets l
Start(l) ==
    /\ mgr = "running"
    /\ registry = {}
    /\ phase = [i \in Ids |-> "Absent"]
    /\ pc = [i \in Ids |-> "absent"]
    /\ tx_alive = [i \in Ids |-> FALSE]
    /\ rx_con = [i \in Ids |-> <<>>]
    /\ put = [i \in Ids |-> <<>>]
    /\ ws_stream = [i \in Ids |-> "none"]
    /\ ws_in = [i \in Ids |-> <<>>]
    /\ ws_end = [i \in Ids |-> "open"]
    /\ yielded = [i \in Ids |-> <<>>]
    /\ ws_out = [i \in Ids |-> <<>>]
    /\ either = [i \in Ids |-> NoEither]
    /\ ret = [i \in Ids |-> Pending]
    /\ returned = [i \in Ids |-> <<>>]
    /\ depth = [i \in Ids |-> 0]
    /\ tx_ws = <<>>
    /\ outer = NoFrame
    /\ lim = l

Init ==
    /\ Start([in |-> MaxIn, out |-> MaxOut, kept |-> MaxIn,
              inKinds |-> InKinds, outKinds |-> OutKinds])
    /\ hm = Nothing /\ info = Nothing /\ url = Nothing
    /\ agg = Nothing /\ back = Nothing

Upd(f, i, v) == [f EXCEPT ![i] = v]

\* the record of the inbound frames of a connection (put, ws_out) holds the
\* last lim.kept of them, and nested invocations are counted up to lim.kept + 1:
\* a run with a budget of at most lim.kept inbound frames records them all
Keep(seq) == IF Len(seq) > lim.kept THEN Tail(seq) ELSE seq
Nested(n) == IF n > lim.kept + 1 THEN lim.kept + 1 ELSE n

\* ------------------------------------------------------------ conversions
\* impl From<ProtoWebSocketMessage> for TungMessage (ws_msg.into(), line 151):
\* each variant maps to the tungstenite variant of the same name
FromProto(ws_msg) == Tung(ws_msg.ws)

\* ProtoMessage::try_from_tung(id, tung_msg) (line 132): the five message
\* variants convert to a WebSocket ProtoMessage tagged with id, a raw Frame fails
try_from_tung(id, tung_msg) ==
    IF tung_msg.tung \in ProtoKinds
    THEN [ok |-> TRUE, msg |-> WsMessage(id, tung_msg.tung)]
    ELSE [ok |-> FALSE, msg |-> NoMsg]

\* ------------------------------------------------------- WebSocketBuilder

\* a channel that takes one frame more than WS_CHANNEL_SIZE
channel_capacity_plus == WS_CHANNEL_SIZE + 1

\* channel::<ProtoWebSocketMessage>(WS_CHANNEL_SIZE), line 40: the capacity
\* with_handle gives the write channel
channel_capacity == WS_CHANNEL_SIZE

\* with_handle: ws_upgrade()? then channel(WS_CHANNEL_SIZE); on success the
\* builder owns rx_con and the caller gets the WriteHandle (the only sender)
with_handle(id, upgraded) ==
    IF upgraded
    THEN /\ pc' = Upd(pc, id, "connect")
         /\ tx_alive' = Upd(tx_alive, id, TRUE)
         /\ rx_con' = Upd(rx_con, id, <<>>)
    ELSE /\ pc' = Upd(pc, id, "build_failed")
         /\ UNCHANGED <<tx_alive, rx_con>>

\* build, first await: connect_async(self.request).await?
build_connect(id) ==
    /\ pc[id] = "connect"
    /\ \E connected \in BOOLEAN :
          IF connected
          THEN /\ pc' = Upd(pc, id, "respond")
               /\ ws_stream' = Upd(ws_stream, id, "open")
          ELSE /\ pc' = Upd(pc, id, "build_failed")
               /\ UNCHANGED ws_stream
    /\ UNCHANGED <<mgr, registry, phase, tx_alive, rx_con, put, ws_in, ws_end,
                   yielded, ws_out, either, ret, returned, depth, tx_ws>>
    /\ UNCHANGED <<outer, lim, avars>>

\* build_respond that returns the connection without sending the upgrade response
build_respond_silent(id) ==
    /\ pc[id] = "respond"
    /\ \E converted \in BOOLEAN :
          IF converted /\ mgr = "running"
          THEN /\ pc' = Upd(pc, id, "built")
               /\ UNCHANGED <<ws_stream, tx_ws>>
          ELSE /\ pc' = Upd(pc, id, "build_failed")
               /\ ws_stream' = Upd(ws_stream, id, "closed")
               /\ UNCHANGED tx_ws
    /\ UNCHANGED <<mgr, registry, phase, tx_alive, rx_con, put, ws_in, ws_end,
                   yielded, ws_out, either, ret, returned, depth>>
    /\ UNCHANGED <<outer, lim, avars>>

\* build_respond that ignores the result of tx_ws.send (no map_err(..)?)
build_respond_unchecked(id) ==
    /\ pc[id] = "respond"
    /\ \E converted \in BOOLEAN :
          IF converted
          THEN /\ tx_ws' = IF mgr = "running"
                           THEN Append(tx_ws, HttpResponse(id)) ELSE tx_ws
               /\ pc' = Upd(pc, id, "built")
               /\ UNCHANGED ws_stream
          ELSE /\ pc' = Upd(pc, id, "build_failed")
               /\ ws_stream' = Upd(ws_stream, id, "closed")
               /\ UNCHANGED tx_ws
    /\ UNCHANGED <<mgr, registry, phase, tx_alive, rx_con, put, ws_in, ws_end,
                   yielded, ws_out, either, ret, returned, depth>>
    /\ UNCHANGED <<outer, lim, avars>>

\* build, lines 61-72: ProtoHttpResponse::try_from(http_res)?, then
\* tx_ws.send(proto_msg).await (fails when the receiver is gone), then
\* Ok(WebSocket::new(ws_stream, self.rx_con)); on an error the stream is dropped
build_respond(id) ==
    /\ pc[id] = "respond"
    /\ \E converted \in BOOLEAN :
          IF converted /\ mgr = "running"
          THEN /\ tx_ws' = Append(tx_ws, HttpResponse(id))
               /\ pc' = Upd(pc, id, "built")
               /\ UNCHANGED ws_stream
          ELSE /\ pc' = Upd(pc, id, "build_failed")
               /\ ws_stream' = Upd(ws_stream, id, "closed")
               /\ UNCHANGED tx_ws
    /\ UNCHANGED <<mgr, registry, phase, tx_alive, rx_con, put, ws_in, ws_end,
                   yielded, ws_out, either, ret, returned, depth>>
    /\ UNCHANGED <<outer, lim, avars>>

\* select!, read branch of a select that polls the write branch first and
\* takes the read only when the write channel has nothing (biased;)
select_read_biased(id) ==
    /\ pc[id] = "select"
    /\ rx_con[id] = <<>> /\ tx_alive[id]
    /\ \/ /\ ws_in[id] # <<>>
          /\ either' = Upd(either, id, Read("Some", Head(ws_in[id]).tung))
          /\ ws_in' = Upd(ws_in, id, Tail(ws_in[id]))
       \/ /\ ws_in[id] = <<>>
          /\ ws_end[id] = "eof"
          /\ either' = Upd(either, id, Read("None", "-"))
          /\ UNCHANGED ws_in
    /\ pc' = Upd(pc, id, "read")
    /\ UNCHANGED <<mgr, registry, phase, tx_alive, rx_con, put, ws_stream, ws_end,
                   yielded, ws_out, ret, returned, depth, tx_ws>>
    /\ UNCHANGED <<outer, lim, avars>>

\* -------------------------------------------------------------- WebSocket
\* select!, read branch: self.ws_stream.next() is ready
select_read(id) ==
    /\ pc[id] = "select"
    /\ \/ /\ ws_in[id] # <<>>
          /\ either' = Upd(either, id, Read("Some", Head(ws_in[id]).tung))
          /\ ws_in' = Upd(ws_in, id, Tail(ws_in[id]))
       \/ /\ ws_in[id] = <<>>
          /\ ws_end[id] = "eof"
          /\ either' = Upd(either, id, Read("None", "-"))
          /\ UNCHANGED ws_in
    /\ pc' = Upd(pc, id, "read")
    /\ UNCHANGED <<mgr, registry, phase, tx_alive, rx_con, put, ws_stream, ws_end,
                   yielded, ws_out, ret, returned, depth, tx_ws>>
    /\ UNCHANGED <<outer, lim, avars>>

\* select_write where the losing read branch has already taken a frame of the
\* local stream, which is dropped with the cancelled future
select_write_drops_read(id) ==
    /\ pc[id] = "select"
    /\ \/ /\ rx_con[id] # <<>>
          /\ either' = Upd(either, id, Write("Some", Head(rx_con[id]).ws))
          /\ rx_con' = Upd(rx_con, id, Tail(rx_con[id]))
       \/ /\ rx_con[id] = <<>>
          /\ ~tx_alive[id]
          /\ either' = Upd(either, id, Write("None", "-"))
          /\ UNCHANGED rx_con
    /\ ws_in' = IF ws_in[id] # <<>> THEN Upd(ws_in, id, Tail(ws_in[id])) ELSE ws_in
    /\ pc' = Upd(pc, id, "write")
    /\ UNCHANGED <<mgr, registry, phase, tx_alive, put, ws_stream, ws_end,
                   yielded, ws_out, ret, returned, depth, tx_ws>>
    /\ UNCHANGED <<outer, lim, avars>>

\* select_write with the channel read from its newest end (LIFO)
select_write_lifo(id) ==
    /\ pc[id] = "select"
    /\ \/ /\ rx_con[id] # <<>>
          /\ either' = Upd(either, id,
                           Write("Some", rx_con[id][Len(rx_con[id])].ws))
          /\ rx_con' = Upd(rx_con, id, SubSeq(rx_con[id], 1, Len(rx_con[id]) - 1))
       \/ /\ rx_con[id] = <<>>
          /\ ~tx_alive[id]
          /\ either' = Upd(either, id, Write("None", "-"))
          /\ UNCHANGED rx_con
    /\ pc' = Upd(pc, id, "write")
    /\ UNCHANGED <<mgr, registry, phase, tx_alive, put, ws_stream, ws_in, ws_end,
                   yielded, ws_out, ret, returned, depth, tx_ws>>
    /\ UNCHANGED <<outer, lim, avars>>

\* select!, write branch whose recv() never reports the closed channel
select_write_open_only(id) ==
    /\ pc[id] = "select"
    /\ rx_con[id] # <<>>
    /\ either' = Upd(either, id, Write("Some", Head(rx_con[id]).ws))
    /\ rx_con' = Upd(rx_con, id, Tail(rx_con[id]))
    /\ pc' = Upd(pc, id, "write")
    /\ UNCHANGED <<mgr, registry, phase, tx_alive, put, ws_stream, ws_in, ws_end,
                   yielded, ws_out, ret, returned, depth, tx_ws>>
    /\ UNCHANGED <<outer, lim, avars>>

\* select!, write branch whose recv() reports the closed channel as soon as the
\* last sender is gone, whatever is still queued
select_write_close_first(id) ==
    /\ pc[id] = "select"
    /\ \/ /\ rx_con[id] # <<>>
          /\ tx_alive[id]
          /\ either' = Upd(either, id, Write("Some", Head(rx_con[id]).ws))
          /\ rx_con' = Upd(rx_con, id, Tail(rx_con[id]))
       \/ /\ ~tx_alive[id]
          /\ either' = Upd(either, id, Write("None", "-"))
          /\ UNCHANGED rx_con
    /\ pc' = Upd(pc, id, "write")
    /\ UNCHANGED <<mgr, registry, phase, tx_alive, put, ws_stream, ws_in, ws_end,
                   yielded, ws_out, ret, returned, depth, tx_ws>>
    /\ UNCHANGED <<outer, lim, avars>>

\* select!, write branch: self.rx_con.recv() is ready; recv yields the queued
\* frames first and None only once the channel is empty and has no sender
select_write(id) ==
    /\ pc[id] = "select"
    /\ \/ /\ rx_con[id] # <<>>
          /\ either' = Upd(either, id, Write("Some", Head(rx_con[id]).ws))
          /\ rx_con' = Upd(rx_con, id, Tail(rx_con[id]))
       \/ /\ rx_con[id] = <<>>
          /\ ~tx_alive[id]
          /\ either' = Upd(either, id, Write("None", "-"))
          /\ UNCHANGED rx_con
    /\ pc' = Upd(pc, id, "write")
    /\ UNCHANGED <<mgr, registry, phase, tx_alive, put, ws_stream, ws_in, ws_end,
                   yielded, ws_out, ret, returned, depth, tx_ws>>
    /\ UNCHANGED <<outer, lim, avars>>

\* handle_ws_read that builds every message as a Binary frame
handle_ws_read_binary(id, tung_res) ==
    IF tung_res.opt = "None" THEN OkNone
    ELSE IF tung_res.kind = TungErr.tung THEN Err
    ELSE OkSome(WsMessage(id, "Binary"))

\* handle_ws_read that reports the end of the stream as an error
handle_ws_read_eof_err(id, tung_res) ==
    IF tung_res.opt = "None" THEN Err
    ELSE IF tung_res.kind = TungErr.tung THEN Err
    ELSE LET r == try_from_tung(id, Tung(tung_res.kind))
         IN IF r.ok THEN OkSome(r.msg) ELSE Err

\* handle_ws_read that treats a read error as the end of the stream
handle_ws_read_swallow(id, tung_res) ==
    IF tung_res.opt = "None" THEN OkNone
    ELSE IF tung_res.kind = TungErr.tung THEN OkNone
    ELSE LET r == try_from_tung(id, Tung(tung_res.kind))
         IN IF r.ok THEN OkSome(r.msg) ELSE Err

\* handle_ws_read(id, tung_res): the Result<Option<ProtoMessage>, _> it returns
handle_ws_read(id, tung_res) ==
    IF tung_res.opt = "None" THEN OkNone
    ELSE IF tung_res.kind = TungErr.tung THEN Err
    ELSE LET r == try_from_tung(id, Tung(tung_res.kind))
         IN IF r.ok THEN OkSome(r.msg) ELSE Err

\* handle_ws_write with a forwarded frame reported as Break: next would
\* return Ok(None) after every forwarded write
handle_ws_write_break(chan_data, sent) ==
    IF chan_data.opt = "None"
    THEN [res |-> "Ok", flow |-> "Break", wrote |-> <<>>]
    ELSE IF sent
    THEN [res |-> "Ok", flow |-> "Break",
          wrote |-> <<FromProto(ProtoWs(chan_data.kind))>>]
    ELSE [res |-> "Err", flow |-> "-", wrote |-> <<>>]

\* handle_ws_write that logs a failed ws_stream.send and goes on (no `?`)
handle_ws_write_lenient(chan_data, sent) ==
    IF chan_data.opt = "None"
    THEN [res |-> "Ok", flow |-> "Break", wrote |-> <<>>]
    ELSE IF sent
    THEN [res |-> "Ok", flow |-> "Continue",
          wrote |-> <<FromProto(ProtoWs(chan_data.kind))>>]
    ELSE [res |-> "Ok", flow |-> "Continue", wrote |-> <<>>]

\* handle_ws_write(chan_data), sent: whether ws_stream.send succeeds;
\* gives the result, the ControlFlow and the frames written to the socket
handle_ws_write(chan_data, sent) ==
    IF chan_data.opt = "None"
    THEN [res |-> "Ok", flow |-> "Break", wrote |-> <<>>]
    ELSE IF sent
    THEN [res |-> "Ok", flow |-> "Continue",
          wrote |-> <<FromProto(ProtoWs(chan_data.kind))>>]
    ELSE [res |-> "Err", flow |-> "-", wrote |-> <<>>]

\* next, line 93: WsEither::Read(tung_res) => self.handle_ws_read(..).await
next_read(id) ==
    /\ pc[id] = "read"
    /\ LET r == handle_ws_read(id, either[id])
       IN /\ ret' = Upd(ret, id, r)
          /\ returned' = IF r.tag = "Some"
                         THEN Upd(returned, id, Append(returned[id], r.msg))
                         ELSE returned
    /\ pc' = Upd(pc, id, "returned")
    /\ depth' = Upd(depth, id, 0)
    /\ UNCHANGED <<mgr, registry, phase, tx_alive, rx_con, put, ws_stream, ws_in,
                   ws_end, yielded, ws_out, either, tx_ws>>
    /\ UNCHANGED <<outer, lim, avars>>

\* next, lines 95-100: WsEither::Write(chan_data): an error of handle_ws_write
\* is returned (?), Break returns Ok(None), Continue calls self.next(id) again
next_write(id) ==
    /\ pc[id] = "write"
    /\ \E sent \in BOOLEAN :
          LET w == handle_ws_write(either[id], sent)
          IN /\ ws_out' = Upd(ws_out, id, Keep(ws_out[id] \o w.wrote))
             /\ IF w.res = "Err"
                THEN /\ ret' = Upd(ret, id, Err)
                     /\ pc' = Upd(pc, id, "returned")
                     /\ depth' = Upd(depth, id, 0)
                ELSE IF w.flow = "Break"
                THEN /\ ret' = Upd(ret, id, OkNone)
                     /\ pc' = Upd(pc, id, "returned")
                     /\ depth' = Upd(depth, id, 0)
                ELSE /\ pc' = Upd(pc, id, "select")
                     /\ depth' = Upd(depth, id, Nested(depth[id] + 1))
                     /\ UNCHANGED ret
    /\ UNCHANGED <<mgr, registry, phase, tx_alive, rx_con, put, ws_stream, ws_in,
                   ws_end, yielded, either, returned, tx_ws>>
    /\ UNCHANGED <<outer, lim, avars>>

\* ---------------------------------------------------------- local service
\* the local service sends a frame to the device (the mock echoes Binary, Pong)
ServiceSend(id) ==
    /\ ws_stream[id] = "open"
    /\ ws_end[id] = "open"
    /\ SumLen(yielded, Ids) < lim.out
    /\ \E k \in lim.outKinds :
          /\ ws_in' = Upd(ws_in, id, Append(ws_in[id], Tung(k)))
          /\ yielded' = Upd(yielded, id, Append(yielded[id], Tung(k)))
    /\ UNCHANGED <<mgr, registry, phase, pc, tx_alive, rx_con, put, ws_stream,
                   ws_end, ws_out, either, ret, returned, depth, tx_ws>>
    /\ UNCHANGED <<outer, lim, avars>>

\* the local service ends the stream: ws_stream.next() yields None
ServiceClose(id) ==
    /\ ws_stream[id] = "open"
    /\ ws_end[id] = "open"
    /\ ws_end' = Upd(ws_end, id, "eof")
    /\ UNCHANGED <<mgr, registry, phase, pc, tx_alive, rx_con, put, ws_stream,
                   ws_in, yielded, ws_out, either, ret, returned, depth, tx_ws>>
    /\ UNCHANGED <<outer, lim, avars>>

\* reading the local socket fails: ws_stream.next() yields Some(Err(_))
ServiceError(id) ==
    /\ ws_stream[id] = "open"
    /\ ws_end[id] = "open"
    /\ ws_end' = Upd(ws_end, id, "err")
    /\ ws_in' = Upd(ws_in, id, Append(ws_in[id], TungErr))
    /\ UNCHANGED <<mgr, registry, phase, pc, tx_alive, rx_con, put, ws_stream,
                   yielded, ws_out, either, ret, returned, depth, tx_ws>>
    /\ UNCHANGED <<outer, lim, avars>>

\* HandleUpgrade that registers the WriteHandle as soon as with_handle made it
HandleUpgrade_eager(id) ==
    /\ mgr = "running"
    /\ phase[id] = "Absent"
    /\ phase' = Upd(phase, id, "Building")
    /\ outer' = Handled(id, "upgrade")
    /\ registry' = registry \cup {id}
    /\ \E upgraded \in BOOLEAN : with_handle(id, upgraded)
    /\ UNCHANGED <<mgr, put, ws_stream, ws_in, ws_end, yielded, ws_out,
                   either, ret, returned, depth, tx_ws>>
    /\ UNCHANGED <<lim, avars>>

\* ------------------------------------------------- connections manager, task
\* first frame of an Absent id, an HTTP upgrade request: Absent -> Building
HandleUpgrade(id) ==
    /\ mgr = "running"
    /\ phase[id] = "Absent"
    /\ phase' = Upd(phase, id, "Building")
    /\ outer' = Handled(id, "upgrade")
    /\ \E upgraded \in BOOLEAN : with_handle(id, upgraded)
    /\ UNCHANGED <<mgr, registry, put, ws_stream, ws_in, ws_end, yielded, ws_out,
                   either, ret, returned, depth, tx_ws>>
    /\ UNCHANGED <<lim, avars>>

\* the Builder failed: Building -> Closed, the attempt and its handle are dropped
Abandon(id) ==
    /\ pc[id] = "build_failed"
    /\ phase[id] = "Building"
    /\ phase' = Upd(phase, id, "Closed")
    /\ tx_alive' = Upd(tx_alive, id, FALSE)
    /\ UNCHANGED <<mgr, registry, pc, rx_con, put, ws_stream, ws_in, ws_end,
                   yielded, ws_out, either, ret, returned, depth, tx_ws>>
    /\ UNCHANGED <<outer, lim, avars>>

\* Activate that starts the task without registering the WriteHandle
Activate_unregistered(id) ==
    /\ pc[id] = "built"
    /\ phase[id] = "Building"
    /\ phase' = Upd(phase, id, "Active")
    /\ pc' = Upd(pc, id, "idle")
    /\ UNCHANGED <<mgr, registry, tx_alive, rx_con, put, ws_stream, ws_in,
                   ws_end, yielded, ws_out, either, ret, returned, depth, tx_ws>>
    /\ UNCHANGED <<outer, lim, avars>>

\* the Builder succeeded: Building -> Active, the WriteHandle is registered
\* (only while the manager runs) and the connection task starts
Activate(id) ==
    /\ pc[id] = "built"
    /\ phase[id] = "Building"
    /\ phase' = Upd(phase, id, "Active")
    /\ pc' = Upd(pc, id, "idle")
    /\ IF mgr = "running"
       THEN registry' = registry \cup {id} /\ UNCHANGED tx_alive
       ELSE tx_alive' = Upd(tx_alive, id, FALSE) /\ UNCHANGED registry
    /\ UNCHANGED <<mgr, rx_con, put, ws_stream, ws_in, ws_end, yielded, ws_out,
                   either, ret, returned, depth, tx_ws>>
    /\ UNCHANGED <<outer, lim, avars>>

\* Forward of a manager that waits while the channel of any registered id is full
Forward_blocking(id) ==
    /\ mgr = "running"
    /\ id \in registry
    /\ \A i \in registry : Len(rx_con[i]) < channel_capacity
    /\ SumLen(put, Ids) < lim.in
    /\ outer' = Handled(id, "forward")
    /\ \E k \in lim.inKinds :
          /\ rx_con' = Upd(rx_con, id, Append(rx_con[id], ProtoWs(k)))
          /\ put' = Upd(put, id, Keep(Append(put[id], ProtoWs(k))))
    /\ UNCHANGED <<mgr, registry, phase, pc, tx_alive, ws_stream, ws_in, ws_end,
                   yielded, ws_out, either, ret, returned, depth, tx_ws>>
    /\ UNCHANGED <<lim, avars>>

\* an inbound WebSocket frame of an Active id is put into its write channel;
\* the sender waits while the channel holds WS_CHANNEL_SIZE frames
Forward(id) ==
    /\ mgr = "running"
    /\ id \in registry
    /\ Len(rx_con[id]) < channel_capacity
    /\ SumLen(put, Ids) < lim.in
    /\ outer' = Handled(id, "forward")
    /\ \E k \in lim.inKinds :
          /\ rx_con' = Upd(rx_con, id, Append(rx_con[id], ProtoWs(k)))
          /\ put' = Upd(put, id, Keep(Append(put[id], ProtoWs(k))))
    /\ UNCHANGED <<mgr, registry, phase, pc, tx_alive, ws_stream, ws_in, ws_end,
                   yielded, ws_out, either, ret, returned, depth, tx_ws>>
    /\ UNCHANGED <<lim, avars>>

\* Discard that takes the frame as a fresh attempt and starts a build for the id
Discard_builds(id) ==
    /\ mgr = "running"
    /\ id \notin registry
    /\ phase[id] # "Building"
    /\ outer' = Handled(id, "discard")
    /\ phase' = Upd(phase, id, "Building")
    /\ pc' = Upd(pc, id, "connect")
    /\ UNCHANGED <<mgr, registry, tx_alive, rx_con, put, ws_stream,
                   ws_in, ws_end, yielded, ws_out, either, ret, returned, depth,
                   tx_ws>>
    /\ UNCHANGED <<lim, avars>>

\* an inbound WebSocket frame of an id that has no registry entry and no build
\* under way (never seen, or removed after close): a protocol violation, the
\* frame is discarded and nothing else changes
Discard(id) ==
    /\ mgr = "running"
    /\ id \notin registry
    /\ phase[id] # "Building"
    /\ outer' = Handled(id, "discard")
    /\ UNCHANGED <<mgr, registry, phase, pc, tx_alive, rx_con, put, ws_stream,
                   ws_in, ws_end, yielded, ws_out, either, ret, returned, depth,
                   tx_ws>>
    /\ UNCHANGED <<lim, avars>>

\* the outer connection is closed or fails: the manager ends, every write
\* handle is dropped and the outbound sink has no receiver any more
ManagerStop ==
    /\ mgr = "running"
    /\ mgr' = "stopped"
    /\ registry' = {}
    /\ tx_alive' = [i \in Ids |-> FALSE]
    /\ UNCHANGED <<phase, pc, rx_con, put, ws_stream, ws_in, ws_end, yielded,
                   ws_out, either, ret, returned, depth, tx_ws>>
    /\ UNCHANGED <<outer, lim, avars>>

\* the connection task calls next(id)
CallNext(id) ==
    /\ pc[id] = "idle"
    /\ pc' = Upd(pc, id, "select")
    /\ depth' = Upd(depth, id, 1)
    /\ ret' = Upd(ret, id, Pending)
    /\ either' = Upd(either, id, NoEither)
    /\ UNCHANGED <<mgr, registry, phase, tx_alive, rx_con, put, ws_stream, ws_in,
                   ws_end, yielded, ws_out, returned, tx_ws>>
    /\ UNCHANGED <<outer, lim, avars>>

\* next returned Some(message): the task hands it to the outbound sink
Deliver(id) ==
    /\ pc[id] = "returned"
    /\ ret[id].tag = "Some"
    /\ mgr = "running"
    /\ tx_ws' = Append(tx_ws, ret[id].msg)
    /\ pc' = Upd(pc, id, "idle")
    /\ UNCHANGED <<mgr, registry, phase, tx_alive, rx_con, put, ws_stream, ws_in,
                   ws_end, yielded, ws_out, either, ret, returned, depth>>
    /\ UNCHANGED <<outer, lim, avars>>

\* TaskEnd that lets an error of next end the manager with the task
TaskEnd_fatal(id) ==
    /\ pc[id] = "returned"
    /\ ret[id].tag # "Some" \/ mgr = "stopped"
    /\ pc' = Upd(pc, id, "done")
    /\ phase' = Upd(phase, id, "Closed")
    /\ ws_stream' = Upd(ws_stream, id, "closed")
    /\ IF ret[id] = Err
       THEN /\ mgr' = "stopped"
            /\ registry' = {}
            /\ tx_alive' = [i \in Ids |-> FALSE]
       ELSE /\ mgr' = mgr
            /\ registry' = registry \ {id}
            /\ tx_alive' = Upd(tx_alive, id, FALSE)
    /\ UNCHANGED <<rx_con, put, ws_in, ws_end, yielded, ws_out, either, ret,
                   returned, depth, tx_ws>>
    /\ UNCHANGED <<outer, lim, avars>>

\* next returned None or an error (or the sink is gone): the task ends, the
\* connection is dropped and the registry entry removed: Active -> Closed
TaskEnd(id) ==
    /\ pc[id] = "returned"
    /\ ret[id].tag # "Some" \/ mgr = "stopped"
    /\ pc' = Upd(pc, id, "done")
    /\ phase' = Upd(phase, id, "Closed")
    /\ ws_stream' = Upd(ws_stream, id, "closed")
    /\ registry' = registry \ {id}
    /\ tx_alive' = Upd(tx_alive, id, FALSE)
    /\ UNCHANGED <<mgr, rx_con, put, ws_in, ws_end, yielded, ws_out, either, ret,
                   returned, depth, tx_ws>>
    /\ UNCHANGED <<outer, lim, avars>>

\* every step of the builder, the task and the local service of one id
Step(id) ==
    \/ HandleUpgrade(id)
    \/ build_connect(id)
    \/ build_respond(id)
    \/ Abandon(id)
    \/ Activate(id)
    \/ Forward(id)
    \/ Discard(id)
    \/ CallNext(id)
    \/ select_read(id)
    \/ select_write(id)
    \/ next_read(id)
    \/ next_write(id)
    \/ Deliver(id)
    \/ TaskEnd(id)
    \/ ServiceSend(id)
    \/ ServiceClose(id)
    \/ ServiceError(id)

\* the ids the remote peer uses in Spec: one logical connection
PeerIds == {"A"}

Next == ManagerStop \/ \E id \in PeerIds : Step(id)

Spec == Init /\ [][Next]_vars

\* the whole session: the remote peer uses every id; smaller budgets and one
\* kind of frame in each direction
InitAll ==
    /\ Start([in |-> MaxInAll, out |-> MaxOutAll, kept |-> MaxInAll,
              inKinds |-> {"Text"}, outKinds |-> {"Binary"}])
    /\ hm = Nothing /\ info = Nothing /\ url = Nothing
    /\ agg = Nothing /\ back = Nothing

NextAll == ManagerStop \/ \E id \in Ids : Step(id)

SpecAll == InitAll /\ [][NextAll]_vars

\* the steps of the builder and of the connection task of one id: futures the
\* runtime polls whenever they are ready (the manager's inbound frames and the
\* local service are the environment and owe nothing)
Run(id) ==
    \/ build_connect(id)
    \/ build_respond(id)
    \/ Abandon(id)
    \/ Activate(id)
    \/ CallNext(id)
    \/ select_read(id)
    \/ select_write(id)
    \/ next_read(id)
    \/ next_write(id)
    \/ Deliver(id)
    \/ TaskEnd(id)

\* the whole session under a runtime that keeps polling every ready task
SpecAllFair == SpecAll /\ \A id \in Ids : WF_vars(Run(id))

\* one connection whose inbound frames never run out: the budget of inbound
\* frames is above what the run records, so the manager can always put another
InitStream ==
    /\ Start([in |-> MaxKept + 1, out |-> MaxOut, kept |-> MaxKept,
              inKinds |-> InKinds, outKinds |-> OutKinds])
    /\ hm = Nothing /\ info = Nothing /\ url = Nothing
    /\ agg = Nothing /\ back = Nothing

SpecStream == InitStream /\ [][Next]_vars

\* the same under a runtime that keeps polling the ready builder and task, and
\* a select! that is fair to its branches (the default random order of polling):
\* a read branch that is ready again and again at a select is taken
SpecStreamFair ==
    SpecStream /\ \A id \in PeerIds : WF_vars(Run(id)) /\ SF_vars(select_read(id))

\* =========================================================== astarte.rs
\* longest session token of the runs (characters)
MaxToken == 2
\* u16::MAX, the largest port (let port: u16, line 95)
U16Max == 65535
\* i32::MIN and i32::MAX, the range of AstarteType::Integer (port: i32, line 98)
I32Max == 2147483647
I32Min == -I32Max - 1
\* the port Url leaves out of a ws:// address (the scheme's default)
WsDefaultPort == 80

\* characters of a session token: a letter, and characters the form-urlencoded
\* query has to escape
TokenChars == {"a", " ", "+", "%", "&"}
Tokens == UNION {[1..n -> TokenChars] : n \in 0..MaxToken}

\* host texts an aggregate may carry: canonical ones, ones Host::parse
\* normalises (upper case, short hexadecimal IPv4), and ones it rejects
HostTexts == {"127.0.0.1", "0x7f.1", "example.com", "EXAMPLE.com", "[::1]",
              "", "exa mple.com"}

\* port values an aggregate may carry: the ends of i32 and both ends of u16
PortValues == {I32Min, -1, 0, 1, WsDefaultPort, 8080, U16Max - 1, U16Max,
               U16Max + 1, U16Max + 1 + WsDefaultPort, I32Max}

\* Result values
Ok(v) == [ok |-> TRUE, v |-> v]
Fail(e) == [ok |-> FALSE, err |-> e]

\* an entry of the aggregate: the key is absent, or holds an AstarteType
NoEntry(v) == [type |-> "Absent", v |-> v]
AstarteType(t, v) == [type |-> t, v |-> v]

\* the aggregates Astarte may send: every key absent, of another type than the
\* mapping's, or of the mapping's type with any of the values above
Aggregates ==
    [host : {NoEntry(""), AstarteType("Integer", "")}
            \cup {AstarteType("String", h) : h \in HostTexts},
     port : {NoEntry(0), AstarteType("String", 0)}
            \cup {AstarteType("Integer", p) : p \in PortValues},
     session_token : {NoEntry(<<>>), AstarteType("Boolean", <<>>)}
                     \cup {AstarteType("String", t) : t \in Tokens}]

\* url::Host values
Ipv4(a) == [kind |-> "Ipv4", addr |-> a]
Ipv6(a) == [kind |-> "Ipv6", addr |-> a]
Domain(d) == [kind |-> "Domain", addr |-> d]

\* Host::parse(&host), line 93: a bracketed text is an IPv6 address, a domain
\* is lower-cased (IDNA), a text ending in a number is an IPv4 address in any
\* of its notations, an empty text or a forbidden character is an error
Host_parse(text) ==
    CASE text = "127.0.0.1" -> Ok(Ipv4("127.0.0.1"))
      [] text = "0x7f.1" -> Ok(Ipv4("127.0.0.1"))
      [] text = "example.com" -> Ok(Domain("example.com"))
      [] text = "EXAMPLE.com" -> Ok(Domain("example.com"))
      [] text = "[::1]" -> Ok(Ipv6("::1"))
      [] OTHER -> Fail("ParseUrl")

\* impl Display for Host (format!("{}", value.host), line 77; to_string,
\* line 61): an IPv6 address is written in brackets
Host_to_string(host) ==
    IF host.kind = "Ipv6"
    THEN CASE host.addr = "::1" -> "[::1]"
    ELSE host.addr

\* u16 as i32 that keeps the low 16 bits
u16_wrapping(port) == Ok(port % (U16Max + 1))

\* i32 -> u16, port.try_into(), line 98: TryFromIntError outside 0..=u16::MAX
u16_try_from(port) ==
    IF 0 <= port /\ port <= U16Max THEN Ok(port) ELSE Fail("ParsePort")

\* retrieve_connection_info that takes a missing session_token as an empty one
retrieve_connection_info_default(map) ==
    LET host == IF map.host.type = "Absent" THEN Fail("MissingUrlInfo")
                ELSE IF map.host.type # "String" THEN Fail("Sdk")
                ELSE Host_parse(map.host.v)
        port == IF map.port.type = "Absent" THEN Fail("MissingUrlInfo")
                ELSE IF map.port.type # "Integer" THEN Fail("Sdk")
                ELSE u16_try_from(map.port.v)
        session_token ==
                IF map.session_token.type = "Absent" THEN Ok(<<>>)
                ELSE IF map.session_token.type # "String" THEN Fail("Sdk")
                ELSE Ok(map.session_token.v)
    IN IF ~host.ok THEN host
       ELSE IF ~port.ok THEN port
       ELSE IF ~session_token.ok THEN session_token
       ELSE [ok |-> TRUE, host |-> host.v, port |-> port.v,
             session_token |-> session_token.v]

\* retrieve_connection_info, lines 84-111: host, port, session_token in this
\* order, each with `?`: missing key, wrong AstarteType (SdkError), then the
\* conversion of the value
retrieve_connection_info(map) ==
    LET host == IF map.host.type = "Absent" THEN Fail("MissingUrlInfo")
                ELSE IF map.host.type # "String" THEN Fail("Sdk")
                ELSE Host_parse(map.host.v)
        port == IF map.port.type = "Absent" THEN Fail("MissingUrlInfo")
                ELSE IF map.port.type # "Integer" THEN Fail("Sdk")
                ELSE u16_try_from(map.port.v)
        session_token ==
                IF map.session_token.type = "Absent" THEN Fail("MissingUrlInfo")
                ELSE IF map.session_token.type # "String" THEN Fail("Sdk")
                ELSE Ok(map.session_token.v)
    IN IF ~host.ok THEN host
       ELSE IF ~port.ok THEN port
       ELSE IF ~session_token.ok THEN session_token
       ELSE [ok |-> TRUE, host |-> host.v, port |-> port.v,
             session_token |-> session_token.v]

\* form_urlencoded::byte_serialize of one character: a letter stays, a space
\* becomes "+", anything else %XX
byte_serialize(ch) ==
    CASE ch = "a" -> <<"a">>
      [] ch = " " -> <<"+">>
      [] ch = "+" -> <<"%", "2", "B">>
      [] ch = "%" -> <<"%", "2", "5">>
      [] ch = "&" -> <<"%", "2", "6">>

RECURSIVE serialize(_)
serialize(text) ==
    IF text = <<>> THEN <<>>
    ELSE byte_serialize(Head(text)) \o serialize(Tail(text))

\* the byte two hexadecimal digits stand for
HexByte(hi, lo) ==
    CASE hi = "2" /\ lo = "B" -> <<"+">>
      [] hi = "2" /\ lo = "5" -> <<"%">>
      [] hi = "2" /\ lo = "6" -> <<"&">>
      [] OTHER -> <<>>

\* form_urlencoded decoding of a name or value: "+" is a space, %XX a byte
RECURSIVE decode(_)
decode(text) ==
    IF text = <<>> THEN <<>>
    ELSE IF Head(text) = "+" THEN <<" ">> \o decode(Tail(text))
    ELSE IF /\ Head(text) = "%" /\ Len(text) >= 3
            /\ HexByte(text[2], text[3]) # <<>>
    THEN HexByte(text[2], text[3]) \o decode(SubSeq(text, 4, Len(text)))
    ELSE <<Head(text)>> \o decode(Tail(text))

\* Url::parse_with_params(input, [("session_token", token)]), lines 76-80: the
\* host text is parsed again, the port is kept unless it is the scheme's
\* default, the pair is appended to the query form-urlencoded
parse_with_params(host_text, port, token) ==
    LET host == Host_parse(host_text)
    IN IF ~host.ok THEN host
       ELSE [ok |-> TRUE, scheme |-> "ws", host |-> host.v,
             port |-> IF port = WsDefaultPort THEN Fail("None") ELSE Ok(port),
             path |-> "/device/websocket",
             query |-> <<"session_token", "=">> \o serialize(token)]

\* try_from that does not check the session token
try_from_unchecked(value) ==
    parse_with_params(Host_to_string(value.host), value.port,
                      value.session_token)

\* impl TryFrom<&ConnectionInfo> for Url, lines 68-82
try_from(value) ==
    IF value.session_token = <<>> THEN Fail("MissingUrlInfo")
    ELSE parse_with_params(Host_to_string(value.host), value.port,
                           value.session_token)

\* Url::port_or_known_default: the port of the address
port_or_known_default(u) == IF u.port.ok THEN u.port.v ELSE WsDefaultPort

\* the text of the query up to the first "&", after the first "="
RECURSIVE UpTo(_, _)
UpTo(text, ch) ==
    IF text = <<>> \/ Head(text) = ch THEN <<>>
    ELSE <<Head(text)>> \o UpTo(Tail(text), ch)

\* Url::query_pairs, first pair: the decoded name and value
query_pair(u) ==
    LET pair == UpTo(u.query, "&")
        name == UpTo(pair, "=")
    IN [name |-> decode(name),
        value |-> decode(SubSeq(pair, Len(name) + 2, Len(pair)))]

\* the device receives an aggregate and retrieves the ConnectionInfo
Retrieve ==
    /\ info = Nothing
    /\ info' = retrieve_connection_info(hm)
    /\ UNCHANGED <<hm, url, agg, back>>
    /\ UNCHANGED <<mgr, registry, phase, pc, tx_alive, rx_con, put, ws_stream,
                   ws_in, ws_end, yielded, ws_out, either, ret, returned, depth,
                   tx_ws, outer, lim>>

\* the device derives the address of the outer connection
Connect ==
    /\ info # Nothing /\ info.ok
    /\ url = Nothing
    /\ url' = try_from(info)
    /\ UNCHANGED <<hm, info, agg, back>>
    /\ UNCHANGED <<mgr, registry, phase, pc, tx_alive, rx_con, put, ws_stream,
                   ws_in, ws_end, yielded, ws_out, either, ret, returned, depth,
                   tx_ws, outer, lim>>

\* astarte_aggregate that writes the host without the notation of Display
astarte_aggregate_plain(self) ==
    Ok([host |-> AstarteType("String", self.host.addr),
        port |-> AstarteType("Integer", self.port),
        session_token |-> AstarteType("String", self.session_token)])

\* impl AstarteAggregate for ConnectionInfo, lines 58-66: the three keys, the
\* host as its text, the port widened to i32, the token as it is
astarte_aggregate(self) ==
    Ok([host |-> AstarteType("String", Host_to_string(self.host)),
        port |-> AstarteType("Integer", self.port),
        session_token |-> AstarteType("String", self.session_token)])

\* the device publishes the ConnectionInfo it holds as an aggregate
Aggregate ==
    /\ info # Nothing /\ info.ok
    /\ agg = Nothing
    /\ agg' = astarte_aggregate(info)
    /\ UNCHANGED <<hm, info, url, back>>
    /\ UNCHANGED <<mgr, registry, phase, pc, tx_alive, rx_con, put, ws_stream,
                   ws_in, ws_end, yielded, ws_out, either, ret, returned, depth,
                   tx_ws, outer, lim>>

\* the published aggregate is retrieved again
RetrieveBack ==
    /\ agg # Nothing /\ agg.ok
    /\ back = Nothing
    /\ back' = retrieve_connection_info(agg.v)
    /\ UNCHANGED <<hm, info, url, agg>>
    /\ UNCHANGED <<mgr, registry, phase, pc, tx_alive, rx_con, put, ws_stream,
                   ws_in, ws_end, yielded, ws_out, either, ret, returned, depth,
                   tx_ws, outer, lim>>

\* the session bootstrap: an aggregate arrives, no connection exists yet
InitAstarte ==
    /\ Start([in |-> 0, out |-> 0, kept |-> 0,
              inKinds |-> {}, outKinds |-> {}])
    /\ hm \in Aggregates
    /\ info = Nothing
    /\ url = Nothing
    /\ agg = Nothing
    /\ back = Nothing

NextAstarte == Retrieve \/ Connect \/ Aggregate \/ RetrieveBack

SpecAstarte == InitAstarte /\ [][NextAstarte]_vars

\* ================================================================= claims
\* next(id) is running for c and holds a frame the write channel yielded
Forwarding(c) == pc[c] = "write" /\ either[c].opt = "Some"

\* the frames of the local service that a read has taken so far
Taken(c) == SubSeq(yielded[c], 1, Len(returned[c]))

\* C1 as stated: when the write channel yields a frame, the frame is written
\* to the local socket and next keeps waiting: a call of next never returns
\* as the result of a forwarded inbound frame.
C1_NeverReturnsOnForward ==
    [][\A c \in Ids :
          Forwarding(c) /\ pc'[c] # pc[c]
          => /\ pc'[c] = "select"
             /\ ws_out'[c] = Append(ws_out[c], Tung(either[c].kind))]_vars

\* C1 amended: a forwarded frame never makes next return an Ok value: either
\* the frame is written to the local socket and next keeps waiting (it selects
\* again), or the write fails, nothing is written and next returns an error;
\* every Some(message) next returns comes from the read branch and carries a
\* frame the local socket produced.
C1_ForwardNotReturned ==
    /\ [][\A c \in Ids :
             Forwarding(c) /\ pc'[c] # pc[c]
             => \/ /\ pc'[c] = "select"
                   /\ ret'[c] = Pending
                   /\ ws_out'[c] = Append(ws_out[c], Tung(either[c].kind))
                \/ /\ pc'[c] = "returned"
                   /\ ret'[c] = Err
                   /\ ws_out'[c] = ws_out[c]]_vars
    /\ [](\A c \in Ids :
             ret[c].tag = "Some"
             => /\ either[c].e = "Read"
                /\ \E i \in 1..Len(yielded[c]) :
                      ret[c].msg = WsMessage(c, yielded[c][i].tung))

\* C1 witness: a forwarded frame was written, next went on and then returned
\* a message of the local socket
C1_Witness ==
    \E c \in Ids : ret[c].tag = "Some" /\ depth[c] = 0 /\ ws_out[c] # <<>>
                   /\ pc[c] = "returned" /\ Len(returned[c]) = 1

\* C2: the frames written to the local socket are a prefix of the frames put
\* into the connection's write channel, in the same order (none reordered,
\* duplicated or skipped).
C2_WrittenIsPrefixOfPut ==
    \A c \in Ids :
       /\ Len(ws_out[c]) <= Len(put[c])
       /\ \A i \in 1..Len(ws_out[c]) : ws_out[c][i] = FromProto(put[c][i])

\* C2 witness: two different frames were forwarded between reads of the socket
C2_Witness ==
    \E c \in Ids : /\ Len(ws_out[c]) = 2
                   /\ ws_out[c][1] # ws_out[c][2]
                   /\ returned[c] # <<>>

\* C3: when the write channel is closed, next returns None without an error
\* and the local socket is closed when None is returned.
C3_ClosedChannelClosesSocket ==
    \A c \in Ids :
       pc[c] = "returned" /\ either[c] = Write("None", "-")
       => ret[c] = OkNone /\ ws_stream[c] = "closed"

\* build returned Ok(WebSocket) for c
BuiltOk(c) == pc[c] \in {"built", "idle", "select", "read", "write", "returned", "done"}

\* the messages of the outbound sink that are tagged with c
Out(c) == SelectSeq(tx_ws, LAMBDA m : m.id = c)

\* C4: when build succeeds for an id, exactly one HTTP Response tagged with
\* the id is on the outbound sink when the Connection is returned, and it
\* precedes every WebSocket frame emitted for the id.
C4_UpgradeResponseFirst ==
    \A c \in Ids :
       /\ pc[c] = "built" => Out(c) = <<HttpResponse(c)>>
       /\ BuiltOk(c)
          => /\ Len(Out(c)) >= 1
             /\ Out(c)[1] = HttpResponse(c)
             /\ \A i \in 2..Len(Out(c)) : Out(c)[i].proto = "WebSocket"

\* C4 witness: the upgrade response of a built connection is followed by a frame
C4_Witness ==
    \E c \in Ids : BuiltOk(c) /\ Len(Out(c)) >= 2 /\ Out(c)[2].proto = "WebSocket"

\* C5: when the local socket yields a data frame and the read branch is
\* taken, next returns Some(message) of the WebSocket kind with the frame's
\* payload variant, tagged with the id passed to next.
C5_ReadFrameReturned ==
    \A c \in Ids :
       pc[c] = "returned" /\ either[c].e = "Read" /\ either[c].opt = "Some"
          /\ either[c].kind \in TungReadKinds
       => /\ ret[c].tag = "Some"
          /\ ret[c].msg.proto = "WebSocket"
          /\ ret[c].msg.message = either[c].kind
          /\ ret[c].msg.id = c

\* C5 witness: a Ping frame of the local socket was read and returned
C5_Witness ==
    \E c \in Ids : /\ pc[c] = "returned" /\ either[c] = Read("Some", "Ping")
                   /\ ret[c].tag = "Some"

\* C6: when the local socket reports end-of-stream, next returns None and not
\* an error, even if inbound frames are still queued in the write channel.
C6_EofReturnsNone ==
    \A c \in Ids :
       pc[c] = "returned" /\ either[c] = Read("None", "-") => ret[c] = OkNone

\* C6 witness: None returned at end-of-stream with a frame left in the channel
C6_Witness ==
    \E c \in Ids : /\ pc[c] = "returned" /\ either[c] = Read("None", "-")
                   /\ ret[c] = OkNone /\ rx_con[c] # <<>>

\* C7: when reading the local socket fails, next returns an error (neither
\* None nor a message), and it does not retry the read: it returns at once,
\* selecting and reading nothing more.
C7_ReadErrorReturned ==
    /\ [](\A c \in Ids :
             pc[c] = "returned" /\ either[c] = Read("Some", TungErr.tung)
             => ret[c] = Err)
    /\ [][\A c \in Ids :
             pc[c] = "read" /\ either[c] = Read("Some", TungErr.tung)
                /\ pc'[c] # pc[c]
             => pc'[c] = "returned" /\ ws_in'[c] = ws_in[c]]_vars

\* C7 witness: next returned the error of a failed read
C7_Witness ==
    \E c \in Ids : /\ pc[c] = "returned"
                   /\ either[c] = Read("Some", TungErr.tung) /\ ret[c] = Err

\* the data frames among the items the local stream still holds
Unread(c) == SelectSeq(ws_in[c], LAMBDA t : t # TungErr)

\* the frame a read has taken and next has not returned yet
InHand(c) ==
    IF pc[c] = "read" /\ either[c].opt = "Some" /\ either[c].kind # TungErr.tung
    THEN <<Tung(either[c].kind)>> ELSE <<>>

\* C8: the messages returned by successive calls of next are exactly the
\* frames the local socket yielded, in the same order, each once; a frame that
\* becomes readable while a forwarded write is handled is not lost.
C8_ReturnedAreYielded ==
    \A c \in Ids :
       /\ Len(returned[c]) <= Len(yielded[c])
       /\ \A i \in 1..Len(returned[c]) :
             returned[c][i] = WsMessage(c, yielded[c][i].tung)
       /\ yielded[c] = Taken(c) \o InHand(c) \o Unread(c)

\* C8 witness: a frame is readable while a forwarded write is being handled,
\* after an earlier frame was returned
C8_Witness ==
    \E c \in Ids : Forwarding(c) /\ Unread(c) # <<>> /\ returned[c] # <<>>

\* C9: the number of nested, not yet returned invocations of next stays
\* bounded by a constant (one invocation, as for a loop), whatever the number
\* of consecutive inbound frames forwarded.
C9_NestingBounded == \A c \in Ids : depth[c] <= 1

\* build returned an error for c
BuildFailed(c) == pc[c] = "build_failed"

\* C10: when the Builder fails (handshake, response conversion or closed
\* sink), build returns an error and no Connection: the id never becomes
\* Active, no WebSocket frame is emitted for it, next is never called, and the
\* failure does not terminate the manager.
C10_BuildFailureAbandoned ==
    /\ [](\A c \in Ids :
             BuildFailed(c)
             => /\ phase[c] \in {"Building", "Closed"}
                /\ c \notin registry
                /\ ret[c] = Pending /\ depth[c] = 0
                /\ ws_stream[c] # "open"
                /\ \A i \in 1..Len(Out(c)) : Out(c)[i].proto # "WebSocket")
    /\ [][\A c \in Ids :
             /\ BuildFailed(c) => BuildFailed(c)'
             /\ ~BuildFailed(c) /\ BuildFailed(c)' => mgr' = mgr
             /\ pc[c] = "connect" /\ pc'[c] # pc[c] /\ ws_stream'[c] # "open"
                => BuildFailed(c)'
             /\ pc[c] = "respond" /\ pc'[c] # pc[c]
                   /\ (mgr = "stopped" \/ Len(tx_ws') = Len(tx_ws))
                => BuildFailed(c)']_vars

\* C10 witness: the builder failed after the handshake (the socket was opened
\* and dropped), the attempt was abandoned and the manager still runs
C10_Witness ==
    \E c \in Ids : /\ BuildFailed(c) /\ phase[c] = "Closed"
                   /\ ws_stream[c] = "closed" /\ mgr = "running"

\* C11: an id whose build attempt has not succeeded has no registry entry, in
\* every reachable state: the write handle with_handle creates exists while the
\* build runs and after it failed, and is never registered.
C11_FailedBuildNeverRegistered ==
    \A c \in Ids : c \in registry => BuiltOk(c) /\ tx_alive[c]

\* C11 witness: the handle of c was created, the build of c failed (handshake
\* or response) and c has no registry entry while the manager runs
C11_Witness ==
    \E c \in Ids : /\ BuildFailed(c) /\ tx_alive[c]
                   /\ c \notin registry /\ mgr = "running"

\* the manager handles an inbound frame of c as act in this step
Handles(c, act) == outer' = Handled(c, act) /\ outer' # outer

\* C12: no inbound frame is lost while a connection becomes Active: while the
\* build of c runs no frame of c is handled, a running manager has the handle
\* of every Active c registered, a frame of c is discarded only if c was never
\* built or its task has ended, and a forwarded frame is appended to the write
\* channel of c.
C12_NoFrameLostWhileActivating ==
    /\ [](\A c \in Ids :
             phase[c] = "Active" /\ mgr = "running" => c \in registry)
    /\ [][\A c \in Ids :
             /\ phase[c] = "Building" /\ outer' # outer => outer'.id # c
             /\ Handles(c, "discard")
                => /\ phase[c] \in {"Absent", "Closed"}
                   /\ BuiltOk(c) => pc[c] = "done"
             /\ Handles(c, "forward")
                => /\ Len(put'[c]) = Len(put[c]) + 1
                   /\ rx_con'[c] = Append(rx_con[c], put'[c][Len(put'[c])])]_vars

\* C12 witness: c was built and registered, and the first frame after its
\* request is in its write channel before the task has called next
C12_Witness ==
    \E c \in Ids : /\ phase[c] = "Active" /\ c \in registry
                   /\ outer = Handled(c, "forward")
                   /\ pc[c] = "idle" /\ ret[c] = Pending
                   /\ Len(put[c]) = 1 /\ rx_con[c] = put[c]

\* the write channel of c is full and its connection has taken nothing from it
FullUndrained(c) ==
    Len(rx_con[c]) = channel_capacity /\ rx_con[c] = put[c]

\* C13: a full write channel of one id suspends only the forwarding for that
\* id: while the channel of a is full, an inbound frame for another registered
\* id b whose channel has room can be put into the channel of b, and a step
\* that puts it leaves the channel of a as it is.
C13_FullChannelBlocksOnlyItsId ==
    /\ [](\A a \in Ids : \A b \in Ids \ {a} :
             /\ Len(rx_con[a]) = channel_capacity
             /\ mgr = "running" /\ b \in registry
             /\ Len(rx_con[b]) < channel_capacity
             /\ SumLen(put, Ids) < lim.in
             => ENABLED Forward(b) /\ ~ENABLED Forward(a))
    /\ [][\A a \in Ids : \A b \in Ids \ {a} :
             Len(rx_con[a]) = channel_capacity /\ Handles(b, "forward")
             => /\ rx_con'[a] = rx_con[a] /\ put'[a] = put[a]
                /\ Len(rx_con'[b]) = Len(rx_con[b]) + 1]_vars

\* C13 witness: the channel of A is full and was never drained, and the last
\* inbound frame the manager handled was put into the channel of B
C13_Witness ==
    /\ FullUndrained("A")
    /\ outer = Handled("B", "forward")
    /\ rx_con["B"] # <<>>

\* the task of c ends in this step because next returned an error
TaskFails(c) == pc[c] = "returned" /\ ret[c] = Err /\ pc'[c] = "done"

\* the task of c has ended with an error of next
Failed(c) == pc[c] = "done" /\ ret[c] = Err

\* C14: an error of next for one id removes only that id's registry entry: the
\* step that ends the failed task leaves the manager and every other id as they
\* are, and afterwards a running manager can still put frames into the channel
\* of every other registered id, whose task can still call next and deliver.
C14_TaskErrorIsLocal ==
    /\ [][\A c \in Ids :
             TaskFails(c)
             => /\ mgr' = mgr
                /\ registry' = registry \ {c}
                /\ tx_ws' = tx_ws
                /\ \A d \in Ids \ {c} :
                      /\ phase'[d] = phase[d] /\ pc'[d] = pc[d]
                      /\ tx_alive'[d] = tx_alive[d] /\ rx_con'[d] = rx_con[d]
                      /\ ws_stream'[d] = ws_stream[d] /\ ws_in'[d] = ws_in[d]]_vars
    /\ [](\A c \in Ids : \A d \in Ids \ {c} :
             Failed(c) /\ mgr = "running" /\ phase[d] = "Active"
             => /\ d \in registry /\ tx_alive[d] /\ ws_stream[d] = "open"
                /\ Len(rx_con[d]) < channel_capacity /\ SumLen(put, Ids) < lim.in
                   => ENABLED Forward(d)
                /\ pc[d] = "idle" => ENABLED CallNext(d)
                /\ pc[d] = "returned" /\ ret[d].tag = "Some" => ENABLED Deliver(d))

\* C14 witness: next of A returned an error and its task ended, the manager
\* runs, and B is registered, has delivered a frame of its local service and is
\* forwarding an inbound frame to it
C14_Witness ==
    /\ Failed("A") /\ "A" \notin registry /\ mgr = "running"
    /\ "B" \in registry /\ Forwarding("B")
    /\ \E i \in 1..Len(tx_ws) : tx_ws[i] = WsMessage("B", "Binary")

\* no connection is left: no local socket open, no registry entry, no builder
\* or task still running
AllDown ==
    /\ registry = {}
    /\ \A c \in Ids : /\ ws_stream[c] # "open"
                      /\ phase[c] # "Active"
                      /\ pc[c] \in {"absent", "build_failed", "done"}

\* C15: when the outer connection is closed or fails, eventually every local
\* socket is closed, every registry entry is removed and no connection task is
\* still running, however many connections were Active.
C15_OuterCloseEndsAll == (mgr = "stopped") ~> AllDown

\* C15 witness: the manager stopped while A and B were both Active and their
\* local services silent; both tasks ended because their write channel closed
C15_Witness ==
    /\ mgr = "stopped" /\ AllDown
    /\ \A c \in Ids : /\ pc[c] = "done" /\ ws_stream[c] = "closed"
                      /\ ret[c] = OkNone /\ ws_end[c] = "open"

\* C16: a first frame that is not an HTTP request, for an id that has no
\* registry entry (never seen, or removed after close), is discarded: the step
\* creates no registry entry, starts no build, opens no local connection and
\* leaves the id in its phase; such an id never gets a frame forwarded.
C16_FirstFrameMustBeRequest ==
    /\ [][\A c \in Ids :
             Handles(c, "discard")
             => /\ c \notin registry /\ registry' = registry
                /\ phase[c] \in {"Absent", "Closed"} /\ phase' = phase
                /\ pc' = pc /\ tx_alive' = tx_alive
                /\ ws_stream[c] # "open" /\ ws_stream' = ws_stream
                /\ rx_con' = rx_con /\ put' = put /\ tx_ws' = tx_ws]_vars
    /\ [](\A c \in Ids :
             c \notin registry
             => /\ ~ENABLED Forward(c)
                /\ mgr = "running" /\ phase[c] # "Building" => ENABLED Discard(c))

\* C16 witness: a frame of the never seen id c was discarded: c is Absent, has
\* no registry entry, no builder and no local socket
C16_Witness ==
    \E c \in Ids : /\ outer = Handled(c, "discard") /\ c \notin registry
                   /\ phase[c] = "Absent" /\ pc[c] = "absent"
                   /\ ws_stream[c] = "none" /\ ~tx_alive[c]

\* the frames of c taken from the write channel so far: those written to the
\* local socket, then the one next holds
Drained(c) ==
    ws_out[c] \o (IF Forwarding(c) THEN <<FromProto(ProtoWs(either[c].kind))>>
                  ELSE <<>>)

\* C19: the write channel is bounded and lossless: it never holds more than
\* WS_CHANNEL_SIZE frames, a full channel accepts no frame (the sender waits),
\* a put appends and never removes or replaces a queued frame, and unless a
\* write to the local socket failed every frame ever put is, in order, either
\* taken by the connection or still queued.
C19_ChannelBoundedLossless ==
    /\ [](\A c \in Ids :
             /\ Len(rx_con[c]) <= WS_CHANNEL_SIZE
             /\ Len(rx_con[c]) = WS_CHANNEL_SIZE => ~ENABLED Forward(c)
             /\ ret[c] # Err
                => [i \in 1..Len(put[c]) |-> FromProto(put[c][i])]
                   = Drained(c) \o [i \in 1..Len(rx_con[c]) |-> FromProto(rx_con[c][i])])
    /\ [][\A c \in Ids :
             \/ rx_con'[c] = rx_con[c]
             \/ /\ put'[c] # put[c]
                /\ rx_con'[c] = Append(rx_con[c], put'[c][Len(put'[c])])
             \/ /\ put'[c] = put[c] /\ rx_con[c] # <<>>
                /\ rx_con'[c] = Tail(rx_con[c])]_vars

\* C19 witness: the channel of c is full, the manager has a further frame to
\* forward and budget for it, and cannot put it
C19_Witness ==
    \E c \in Ids : /\ Len(rx_con[c]) = WS_CHANNEL_SIZE /\ c \in registry
                   /\ mgr = "running" /\ SumLen(put, Ids) < lim.in
                   /\ ~ENABLED Forward(c)

\* C17: deriving the address from a ConnectionInfo fails when the session
\* token is empty and succeeds otherwise; on success the address has the host
\* and the port of the ConnectionInfo and its query parameter session_token,
\* decoded, is the token.
C17_UrlFromConnectionInfo ==
    url # Nothing
    => IF info.session_token = <<>>
       THEN url = Fail("MissingUrlInfo")
       ELSE /\ url.ok
            /\ url.host = info.host
            /\ port_or_known_default(url) = info.port
            /\ query_pair(url) = [name |-> <<"session_token">>,
                                  value |-> info.session_token]

\* C17 witness: an address derived from a ConnectionInfo whose token has
\* characters the query escapes and whose port is the scheme's default
C17_Witness ==
    /\ url # Nothing /\ url.ok
    /\ info.session_token = <<"&", "+">>
    /\ info.port = WsDefaultPort
    /\ url.query # <<"session_token", "=">> \o info.session_token

\* a key of the aggregate is absent
KeyAbsent == \E k \in {"host", "port", "session_token"} : hm[k].type = "Absent"

\* every key is present with the type of the mapping, the host text is a host
\* and the port a 16-bit port
WellFormed ==
    /\ hm.host.type = "String" /\ Host_parse(hm.host.v).ok
    /\ hm.port.type = "Integer" /\ hm.port.v \in 0..U16Max
    /\ hm.session_token.type = "String"

\* C18, as stated: with a key absent retrieve_connection_info fails whatever
\* the other keys hold; with all three present and well-formed it returns a
\* ConnectionInfo whose host, port and session token equal the supplied values.
C18_ReturnsSuppliedValues ==
    info # Nothing
    => /\ KeyAbsent => ~info.ok
       /\ WellFormed => /\ info.ok
                        /\ Host_to_string(info.host) = hm.host.v
                        /\ info.port = hm.port.v
                        /\ info.session_token = hm.session_token.v

\* C18, amended: with a key absent retrieve_connection_info fails whatever the
\* other keys hold; with all three present and well-formed it returns the
\* supplied port and session token and the host the supplied text denotes, in
\* normal form: its text parses to the same host, and is the supplied text
\* only if that was in normal form already.
C18_ReturnsParsedValues ==
    info # Nothing
    => /\ KeyAbsent => ~info.ok
       /\ WellFormed => /\ info.ok
                        /\ Ok(info.host) = Host_parse(hm.host.v)
                        /\ Ok(info.host) = Host_parse(Host_to_string(info.host))
                        /\ info.port = hm.port.v
                        /\ info.session_token = hm.session_token.v
       /\ info.ok => WellFormed

\* C18 witness: a well-formed aggregate whose host text is not in normal form
\* was retrieved: the ConnectionInfo has the lower-case domain
C18_Witness ==
    /\ info # Nothing /\ info.ok /\ WellFormed
    /\ hm.host.v = "EXAMPLE.com"
    /\ Host_to_string(info.host) = "example.com"

\* C20: a port outside the 16-bit unsigned range is malformed: for an i32 port
\* below 0 or above 65535 retrieve_connection_info fails (with ParsePort when
\* the host is good), never returning a wrapped or truncated port; for a port
\* in 0..65535 a returned ConnectionInfo has the supplied port.
C20_PortOutsideU16Fails ==
    info # Nothing /\ hm.port.type = "Integer"
    => /\ hm.port.v \in I32Min..I32Max
       /\ hm.port.v \notin 0..U16Max
          => /\ ~info.ok
             /\ hm.host.type = "String" /\ Host_parse(hm.host.v).ok
                => info = Fail("ParsePort")
       /\ hm.port.v \in 0..U16Max
          => /\ info.ok => info.port = hm.port.v
             /\ ~info.ok => info.err # "ParsePort"

\* C20 witness: the port 65616, whose low 16 bits are 80, with a good host and
\* token, was rejected as malformed
C20_Witness ==
    /\ hm.port = AstarteType("Integer", U16Max + 1 + WsDefaultPort)
    /\ hm.host.type = "String" /\ Host_parse(hm.host.v).ok
    /\ hm.session_token.type = "String"
    /\ info = Fail("ParsePort")

\* next of c returned None because the write channel was closed
ClosedNone(c) == ret[c] = OkNone /\ either[c] = Write("None", "-")

\* C21: completion by channel closure happens only after the channel is
\* drained: when next returns None because the write channel was closed, the
\* channel is empty, has no sender, and every frame ever put into it has been
\* written to the local socket, in order.
C21_ClosureAfterDrain ==
    \A c \in Ids :
       ClosedNone(c)
       => /\ rx_con[c] = <<>> /\ ~tx_alive[c]
          /\ ws_out[c] = [i \in 1..Len(put[c]) |-> FromProto(put[c][i])]

\* C21 witness: next returned None on the closed channel after it forwarded
\* every frame the manager had put, more than one of them in this one call
C21_Witness ==
    \E c \in Ids : /\ ClosedNone(c) /\ pc[c] = "returned"
                   /\ Len(put[c]) >= 2 /\ Len(ws_out[c]) = Len(put[c])
                   /\ returned[c] = <<>>

\* the write of the frame next holds for c fails in this step
WriteFails(c) == Forwarding(c) /\ pc'[c] # pc[c] /\ ws_out'[c] = ws_out[c]

\* C22: when writing a forwarded frame to the local socket fails, next returns
\* an error in that very step: not None, not a message, nothing is returned to
\* the sink, no further frame is taken from the write channel, and after the
\* error no frame is written to the local socket any more.
C22_WriteFailureReturnsErr ==
    /\ [][\A c \in Ids :
             WriteFails(c)
             => /\ pc'[c] = "returned" /\ ret'[c] = Err /\ depth'[c] = 0
                /\ rx_con'[c] = rx_con[c]
                /\ returned'[c] = returned[c] /\ tx_ws' = tx_ws]_vars
    /\ [][\A c \in Ids :
             ret[c] = Err /\ either[c].e = "Write"
             => /\ ret'[c] = Err /\ ws_out'[c] = ws_out[c]
                /\ Len(rx_con'[c]) >= Len(rx_con[c])
                /\ pc'[c] \in {"returned", "done"}]_vars

\* C22 witness: the write of a forwarded frame failed while a later frame was
\* queued: next returned the error and the later frame is still in the channel
C22_Witness ==
    \E c \in Ids : /\ pc[c] = "returned" /\ ret[c] = Err
                   /\ either[c].e = "Write" /\ either[c].opt = "Some"
                   /\ rx_con[c] # <<>>
                   /\ Len(ws_out[c]) + Len(rx_con[c]) < Len(put[c])

\* the local socket of c has a frame, an error or the end of the stream ready
ReadReady(c) == ws_in[c] # <<>> \/ ws_end[c] = "eof"

\* C23: under a select that is fair to its two branches, a call of next that
\* waits while the local socket has a frame, an end of stream or an error
\* available eventually returns, even if the manager keeps putting inbound
\* frames into the write channel for ever.
C23_ReadNotStarved ==
    \A c \in Ids : (pc[c] = "select" /\ ReadReady(c)) ~> (pc[c] = "returned")

\* C23 witness: in a run whose inbound frames never run out, next forwarded a
\* frame, took the frame the local socket had ready and returned it while a
\* further inbound frame was already waiting in the write channel
C23_Witness ==
    \E c \in Ids : /\ pc[c] = "returned" /\ ret[c].tag = "Some"
                   /\ either[c].e = "Read"
                   /\ lim.kept < lim.in
                   /\ ws_out[c] # <<>> /\ rx_con[c] # <<>>

\* C24: round trip of the connection parameters: the aggregate astarte_aggregate
\* makes of a ConnectionInfo holds exactly the keys host, port and
\* session_token, and retrieve_connection_info applied to it succeeds with the
\* same host, port and session token.
C24_AggregateRoundTrip ==
    /\ agg # Nothing
       => /\ agg.ok
          /\ DOMAIN agg.v = {"host", "port", "session_token"}
          /\ \A k \in DOMAIN agg.v : agg.v[k].type # "Absent"
    /\ back # Nothing
       => /\ back.ok
          /\ back.host = info.host
          /\ back.port = info.port
          /\ back.session_token = info.session_token

\* C24 witness: a ConnectionInfo with an IPv6 host, the largest port and a token
\* of characters a query escapes came back from its aggregate
C24_Witness ==
    /\ back # Nothing /\ back = info
    /\ info.host = Ipv6("::1") /\ info.port = U16Max
    /\ info.session_token = <<"%", "&">>
    /\ agg.v.host = AstarteType("String", "[::1]")

====
